---- MODULE Spec2Model ----
(***************************************************************************)
(* Model of src/src/app.ts: the Express application with its single        *)
(* /health route (lines 5-15) and the server entry point that resolves     *)
(* PORT and calls app.listen inside startServer (lines 17-36).             *)
(*                                                                         *)
(* Strings whose content is computed (port texts, request paths, ISO       *)
(* timestamps) are sequences of one-character strings, so that formatting  *)
(* and parsing are real conversions.  An instant of the wall clock is the  *)
(* pair [day, ms]: days since 1970-01-01 and milliseconds within the day   *)
(* (the time value of a JS Date, split so that it fits a machine integer). *)
(***************************************************************************)
EXTENDS Integers, Sequences, FiniteSets, TLC

VARIABLES
    expressMajor,   \* major version of the installed express package (4 or 5)
    envPORT,        \* process.env.PORT
    occupied,       \* TCP ports held by other processes
    now,            \* the system wall clock
    pc,             \* position of the process
    PORT,           \* the constant PORT of line 19
    listenCalls,    \* number of calls of app.listen so far
    listenArg,      \* the port argument of the last call of app.listen
    startCalls,     \* number of calls of startServer so far
    listenError,    \* how the listen failed, "none" if it has not
    bound,          \* the listening socket is bound
    stdout,         \* lines written by console.log
    stderr,         \* lines written by console.error and by the runtime
    exitCode,       \* exit status of the process, -1 while it runs
    responses       \* the exchanges served so far, in order

vars == <<expressMajor, envPORT, occupied, now, pc, PORT, listenCalls,
          listenArg, startCalls, listenError, bound, stdout, stderr, exitCode,
          responses>>

\* Bound of the model: number of requests served in one run.
MaxRequests == 2

\* ------------------------------------------------------------------ text

DigitChars == <<"0", "1", "2", "3", "4", "5", "6", "7", "8", "9">>

DigitChar(d) == DigitChars[d + 1]

IsDigit(c) == \E d \in 0..9 : DigitChars[d + 1] = c

CharDigit(c) == CHOOSE d \in 0..9 : DigitChars[d + 1] = c

RECURSIVE ToDecimal(_)
\* Number.prototype.toString for a non-negative integer.
ToDecimal(n) ==
    IF n < 10 THEN <<DigitChar(n)>>
    ELSE ToDecimal(n \div 10) \o <<DigitChar(n % 10)>>

\* String.prototype.padStart(w, "0") of the decimal text of n.
Pad(n, w) ==
    LET s == ToDecimal(n)
    IN  [i \in 1..(IF Len(s) < w THEN w - Len(s) ELSE 0) |-> "0"] \o s

RECURSIVE ParseDecimal(_)
\* ToNumber of a string of decimal digits (the empty string is 0).
ParseDecimal(s) ==
    IF Len(s) = 0 THEN 0
    ELSE 10 * ParseDecimal(SubSeq(s, 1, Len(s) - 1)) + CharDigit(s[Len(s)])

IsDecimal(s) == Len(s) > 0 /\ \A i \in 1..Len(s) : IsDigit(s[i])

\* Code unit of the characters an ISO timestamp is made of.
CharCode(c) ==
    CASE c = "-" -> 45
      [] c = "." -> 46
      [] c = ":" -> 58
      [] c = "T" -> 84
      [] c = "Z" -> 90
      [] OTHER   -> 48 + CharDigit(c)

\* a <= b in the order of JS string comparison (by code unit).
StringLeq(a, b) ==
    LET n == IF Len(a) < Len(b) THEN Len(a) ELSE Len(b)
        diff == {i \in 1..n : a[i] # b[i]}
    IN  IF diff = {} THEN Len(a) <= Len(b)
        ELSE LET k == CHOOSE i \in diff : \A j \in diff : i <= j
             IN  CharCode(a[k]) < CharCode(b[k])

\* String.prototype.toLowerCase on the letters request paths are made of.
LowerChar(c) ==
    CASE c = "H" -> "h"
      [] c = "E" -> "e"
      [] c = "A" -> "a"
      [] c = "L" -> "l"
      [] c = "T" -> "t"
      [] c = "U" -> "u"
      [] OTHER   -> c

Lower(s) == [i \in 1..Len(s) |-> LowerChar(s[i])]

\* ------------------------------------------------------------------ Date

YearRange == 1970..2100

InLeapYear(y) == (y % 4 = 0 /\ y % 100 # 0) \/ y % 400 = 0

\* Day number of the first day of year y (ECMA-262 DayFromYear).
DayFromYear(y) ==
    365 * (y - 1970) + ((y - 1969) \div 4) - ((y - 1901) \div 100)
        + ((y - 1601) \div 400)

YearFromDay(d) ==
    CHOOSE y \in YearRange : DayFromYear(y) <= d /\ d < DayFromYear(y + 1)

\* Day within the year on which each month starts.
MonthStarts(y) ==
    LET l == IF InLeapYear(y) THEN 1 ELSE 0
    IN  <<0, 31, 59 + l, 90 + l, 120 + l, 151 + l, 181 + l, 212 + l, 243 + l,
          273 + l, 304 + l, 334 + l, 365 + l>>

MonthFromDay(d) ==
    LET y == YearFromDay(d)
        w == d - DayFromYear(y)
    IN  CHOOSE m \in 1..12 : MonthStarts(y)[m] <= w /\ w < MonthStarts(y)[m + 1]

DateFromDay(d) ==
    LET y == YearFromDay(d)
    IN  d - DayFromYear(y) - MonthStarts(y)[MonthFromDay(d)] + 1

\* toISOString with the milliseconds not padded to three digits.
toISOStringUnpadded(t) ==
    Pad(YearFromDay(t.day), 4) \o <<"-">> \o Pad(MonthFromDay(t.day), 2)
        \o <<"-">> \o Pad(DateFromDay(t.day), 2) \o <<"T">>
        \o Pad(t.ms \div 3600000, 2) \o <<":">>
        \o Pad((t.ms \div 60000) % 60, 2) \o <<":">>
        \o Pad((t.ms \div 1000) % 60, 2) \o <<".">>
        \o ToDecimal(t.ms % 1000) \o <<"Z">>

\* Date.prototype.toISOString: YYYY-MM-DDTHH:mm:ss.sssZ.
toISOString(t) ==
    Pad(YearFromDay(t.day), 4) \o <<"-">> \o Pad(MonthFromDay(t.day), 2)
        \o <<"-">> \o Pad(DateFromDay(t.day), 2) \o <<"T">>
        \o Pad(t.ms \div 3600000, 2) \o <<":">>
        \o Pad((t.ms \div 60000) % 60, 2) \o <<":">>
        \o Pad((t.ms \div 1000) % 60, 2) \o <<".">>
        \o Pad(t.ms % 1000, 3) \o <<"Z">>

Field(s, a, b) == ParseDecimal(SubSeq(s, a, b))

\* s has the shape YYYY-MM-DDTHH:mm:ss.sssZ and names a date that exists.
IsISO8601(s) ==
    /\ Len(s) = 24
    /\ s[5] = "-" /\ s[8] = "-" /\ s[11] = "T" /\ s[14] = ":" /\ s[17] = ":"
    /\ s[20] = "." /\ s[24] = "Z"
    /\ \A i \in (1..23) \ {5, 8, 11, 14, 17, 20} : IsDigit(s[i])
    /\ Field(s, 1, 4) \in YearRange
    /\ Field(s, 6, 7) \in 1..12
    /\ LET ms == MonthStarts(Field(s, 1, 4))
           m  == Field(s, 6, 7)
       IN  Field(s, 9, 10) \in 1..(ms[m + 1] - ms[m])
    /\ Field(s, 12, 13) <= 23
    /\ Field(s, 15, 16) <= 59
    /\ Field(s, 18, 19) <= 59

\* Date.parse of an ISO timestamp: the instant it names.
DateParse(s) ==
    [day |-> DayFromYear(Field(s, 1, 4))
               + MonthStarts(Field(s, 1, 4))[Field(s, 6, 7)]
               + Field(s, 9, 10) - 1,
     ms  |-> Field(s, 12, 13) * 3600000 + Field(s, 15, 16) * 60000
               + Field(s, 18, 19) * 1000 + Field(s, 21, 23)]

\* Instant a is not later than instant b.
NotAfter(a, b) == a.day < b.day \/ (a.day = b.day /\ a.ms <= b.ms)

\* Readings the wall clock takes in the model.
Instants ==
    { [day |-> 10956, ms |-> 86399999],     \* 1999-12-31T23:59:59.999Z
      [day |-> 11016, ms |-> 0],            \* 2000-02-29T00:00:00.000Z
      [day |-> 20758, ms |-> 48600005] }    \* 2026-11-01T13:30:00.005Z

\* ------------------------------------------------------------- JS values

Str(s) == [type |-> "string", str |-> s, num |-> 0]

Num(n) == [type |-> "number", str |-> <<>>, num |-> n]

Undefined == [type |-> "undefined", str |-> <<>>, num |-> 0]

\* ToBoolean.
Truthy(v) ==
    \/ v.type = "string" /\ Len(v.str) > 0
    \/ v.type = "number" /\ v.num # 0

\* a || b.
Or(a, b) == IF Truthy(a) THEN a ELSE b

\* `${v}`.
TemplateText(v) ==
    CASE v.type = "string" -> v.str
      [] v.type = "number" -> ToDecimal(v.num)
      [] OTHER -> <<"u", "n", "d", "e", "f", "i", "n", "e", "d">>

\* ---------------------------------------------------------- entry point

DefaultPort == 8000

\* Values of process.env.PORT: unset, empty, a free or occupied port, and
\* a number that is no TCP port.
EnvValues ==
    { Undefined, Str(<<>>), Str(<<"3", "0", "0", "0">>),
      Str(<<"7", "0", "0", "0", "0">>) }

\* Sets of ports other processes may hold when the server starts.
OccupiedSets == { {}, {3000, 8000} }

\* PORT resolved with another default.
ResolvePORTDefault3000(env) == Or(env, Num(3000))

\* const PORT = process.env.PORT || 8000
ResolvePORT(env) == Or(env, Num(DefaultPort))

\* The port number net.Server.listen binds for the value it is given.
ToPortNumber(v) == IF v.type = "number" THEN v.num ELSE ParseDecimal(v.str)

\* net.Server.listen's validation of its port argument; it throws
\* ERR_SOCKET_BAD_PORT synchronously when this fails.
ValidPort(v) ==
    /\ v.type = "number" \/ (v.type = "string" /\ IsDecimal(v.str))
    /\ ToPortNumber(v) >= 0
    /\ ToPortNumber(v) <= 65535

RunningLine(P) ==
    [text |-> "Server running on http://localhost:", port |-> TemplateText(P),
     path |-> ""]

HealthLine(P) ==
    [text |-> "Health check available at http://localhost:",
     port |-> TemplateText(P), path |-> "/health"]

\* The callback given to app.listen.
ListenCallback(P) == <<RunningLine(P), HealthLine(P)>>

FailedLine(err) == [text |-> "Failed to start server:", error |-> err]

\* What the runtime prints for an 'error' event nobody listens to.
UnhandledLine(err) == [text |-> "Unhandled 'error' event", error |-> err]

\* ------------------------------------------------------------------ app

RoutePath == <<"/", "h", "e", "a", "l", "t", "h">>

RouteMethods == {"GET"}

\* Express matches a route path case-insensitively and lets one trailing
\* slash pass (the settings "case sensitive routing" and "strict routing"
\* are off unless enabled).
PathMatches(path) ==
    LET p == Lower(path)
        q == IF Len(p) > 1 /\ p[Len(p)] = "/" THEN SubSeq(p, 1, Len(p) - 1)
             ELSE p
    IN  q = RoutePath

\* A route registered for every method (app.all).
HandlesAnyMethod(method) == method = method

\* Route.prototype._handles_method: a route with a GET handler and no HEAD
\* handler serves HEAD with the GET handler.
HandlesMethod(method) ==
    \/ method \in RouteMethods
    \/ method = "HEAD" /\ "HEAD" \notin RouteMethods /\ "GET" \in RouteMethods

\* Route.prototype._options: the methods of the automatic OPTIONS answer.
AllowedMethods ==
    RouteMethods \cup
        (IF "GET" \in RouteMethods /\ "HEAD" \notin RouteMethods
         THEN {"HEAD"} ELSE {})

\* req.fresh, read by res.send: a GET or HEAD whose answer is 2xx or 304 and
\* whose validators say the client's copy is current.  Of the validators,
\* requests of the model carry If-None-Match (absent or "*") and
\* Cache-Control: no-cache.
Fresh(req, status) ==
    /\ req.method \in {"GET", "HEAD"}
    /\ (status >= 200 /\ status < 300) \/ status = 304
    /\ req.ifNoneMatch # ""
    /\ ~req.noCache
    /\ req.ifNoneMatch = "*"

\* The object literal with the status in lower case.
HealthBodyLowerCase(t) ==
    << <<"status", "ok">>, <<"message", "Server is running">>,
       <<"timestamp", toISOString(t)>> >>

\* The object literal given to res.json.
HealthBody(t) ==
    << <<"status", "OK">>, <<"message", "Server is running">>,
       <<"timestamp", toISOString(t)>> >>

\* res.status(status).json(body): the body is serialised member by member;
\* res.send answers 304 without a body to a fresh request, and a HEAD
\* request gets no body.
ResJson(req, status, body) ==
    LET st == IF Fresh(req, status) THEN 304 ELSE status
    IN  [status |-> st,
         contentType |-> IF st \in {204, 304} THEN "" ELSE "application/json",
         body |-> IF st \in {204, 304} \/ req.method = "HEAD" THEN <<>>
                  ELSE body,
         allow |-> {}]

\* The handler of the /health route, run at clock reading t.
HealthHandler(req, t) == ResJson(req, 200, HealthBody(t))

\* The router's automatic answer to OPTIONS on a path that has a route.
OptionsResponse ==
    [status |-> 200, contentType |-> "text/plain", body |-> <<>>,
     allow |-> AllowedMethods]

\* finalhandler's answer when no route took the request.
NotFound ==
    [status |-> 404, contentType |-> "text/html", body |-> <<>>, allow |-> {}]

\* The application's answer to req at clock reading t.  body holds the
\* members of a JSON body and is empty when the response carries no JSON.
Dispatch(req, t) ==
    IF PathMatches(req.path)
    THEN IF HandlesMethod(req.method) THEN HealthHandler(req, t)
         ELSE IF req.method = "OPTIONS" THEN OptionsResponse
         ELSE NotFound
    ELSE NotFound

Request(method, path, query, body, inm, nc) ==
    [method |-> method, path |-> path, query |-> query, body |-> body,
     ifNoneMatch |-> inm, noCache |-> nc]

\* Requests clients send in the model.
Requests ==
    { Request("GET", RoutePath, "", "", "", FALSE),
      Request("GET", RoutePath, "probe=1", "{\"status\":\"DOWN\"}", "", TRUE),
      Request("GET", RoutePath, "", "", "*", FALSE),
      Request("HEAD", RoutePath, "", "", "", FALSE),
      Request("OPTIONS", RoutePath, "", "", "", FALSE),
      Request("POST", RoutePath, "", "{}", "", FALSE),
      Request("GET", <<"/", "u", "n", "k", "n", "o", "w", "n">>, "", "", "",
              FALSE),
      Request("GET", <<"/", "H", "E", "A", "L", "T", "H", "/">>, "", "", "",
              FALSE) }

JsonKeys(body) == {body[i][1] : i \in 1..Len(body)}

HasKey(body, k) == k \in JsonKeys(body)

JsonGet(body, k) == body[CHOOSE i \in 1..Len(body) : body[i][1] = k][2]

\* -------------------------------------------------------------- behaviour

Init ==
    /\ expressMajor \in {4, 5}
    /\ envPORT \in EnvValues
    /\ occupied \in OccupiedSets
    /\ now \in Instants
    /\ pc = "load"
    /\ PORT = Undefined
    /\ listenCalls = 0
    /\ listenArg = Undefined
    /\ startCalls = 0
    /\ listenError = "none"
    /\ bound = FALSE
    /\ stdout = <<>>
    /\ stderr = <<>>
    /\ exitCode = -1
    /\ responses = <<>>

\* Line 19: the module body resolves PORT.
ResolvePort ==
    /\ pc = "load"
    /\ PORT' = ResolvePORT(envPORT)
    /\ pc' = "main"
    /\ UNCHANGED <<expressMajor, envPORT, occupied, now, listenCalls, listenArg,
                   startCalls, listenError, bound, stdout, stderr, exitCode,
                   responses>>

\* startServer with a catch block and an error path that call startServer
\* again instead of ending the process.
StartServerRetrying ==
    /\ pc = "main"
    /\ startCalls' = startCalls + 1
    /\ listenCalls' = listenCalls + 1
    /\ listenArg' = PORT
    /\ IF ~ValidPort(PORT)
       THEN /\ listenError' = "ERR_SOCKET_BAD_PORT"
            /\ stderr' = Append(stderr, FailedLine("ERR_SOCKET_BAD_PORT"))
            /\ pc' = "main"
            /\ UNCHANGED <<bound, exitCode>>
       ELSE IF ToPortNumber(PORT) \in occupied
       THEN /\ listenError' = "EADDRINUSE"
            /\ pc' = "main"
            /\ UNCHANGED <<bound, stderr, exitCode>>
       ELSE /\ bound' = TRUE
            /\ pc' = "listenPending"
            /\ UNCHANGED <<listenError, stderr, exitCode>>
    /\ UNCHANGED <<expressMajor, envPORT, occupied, now, PORT, stdout,
                   responses>>

\* Lines 22-36: startServer() calls app.listen(PORT, callback).  A port that
\* is no TCP port makes listen throw, which the catch block logs before
\* process.exit(1).  Otherwise listen binds the socket and returns; the
\* 'listening' or 'error' event is emitted on the next tick, after
\* startServer has returned.
StartServer ==
    /\ pc = "main"
    /\ startCalls' = startCalls + 1
    /\ listenCalls' = listenCalls + 1
    /\ listenArg' = PORT
    /\ IF ~ValidPort(PORT)
       THEN /\ listenError' = "ERR_SOCKET_BAD_PORT"
            /\ stderr' = Append(stderr, FailedLine("ERR_SOCKET_BAD_PORT"))
            /\ exitCode' = 1
            /\ pc' = "exited"
            /\ UNCHANGED bound
       ELSE IF ToPortNumber(PORT) \in occupied
       THEN /\ listenError' = "EADDRINUSE"
            /\ pc' = "errorPending"
            /\ UNCHANGED <<bound, stderr, exitCode>>
       ELSE /\ bound' = TRUE
            /\ pc' = "listenPending"
            /\ UNCHANGED <<listenError, stderr, exitCode>>
    /\ UNCHANGED <<expressMajor, envPORT, occupied, now, PORT, stdout,
                   responses>>

\* The 'listening' event runs the callback of lines 24-29.
EmitListening ==
    /\ pc = "listenPending"
    /\ stdout' = stdout \o ListenCallback(PORT)
    /\ pc' = "listening"
    /\ UNCHANGED <<expressMajor, envPORT, occupied, now, PORT, listenCalls,
                   listenArg,
                   startCalls, listenError, bound, stderr, exitCode,
                   responses>>

\* express 4: app.listen adds no 'error' listener, so the 'error' event of a
\* failed bind is an uncaught exception: the runtime prints it and the
\* process exits with status 1.  startServer has returned by then.
EmitErrorUnhandled ==
    /\ pc = "errorPending"
    /\ expressMajor = 4
    /\ stderr' = Append(stderr, UnhandledLine(listenError))
    /\ exitCode' = 1
    /\ pc' = "exited"
    /\ UNCHANGED <<expressMajor, envPORT, occupied, now, PORT, listenCalls,
                   listenArg,
                   startCalls, listenError, bound, stdout, responses>>

\* express 5: app.listen also registers the callback for the server's
\* 'error' event, so a failed bind runs the callback of lines 24-29 with
\* the error as its argument, which the callback does not read.
EmitErrorToCallback ==
    /\ pc = "errorPending"
    /\ expressMajor = 5
    /\ stdout' = stdout \o ListenCallback(PORT)
    /\ pc' = "idle"
    /\ UNCHANGED <<expressMajor, envPORT, occupied, now, PORT, listenCalls,
                   listenArg,
                   startCalls, listenError, bound, stderr, exitCode,
                   responses>>

\* With no listening socket and nothing pending the event loop is empty
\* and the process ends with status 0.
EventLoopEmpty ==
    /\ pc = "idle"
    /\ exitCode' = 0
    /\ pc' = "exited"
    /\ UNCHANGED <<expressMajor, envPORT, occupied, now, PORT, listenCalls,
                   listenArg,
                   startCalls, listenError, bound, stdout, stderr, responses>>

\* Lines 7-13 behind the router: one request is answered.  The handler is
\* synchronous, so requests are served one at a time in arrival order.
HandleRequest ==
    /\ pc = "listening"
    /\ Len(responses) < MaxRequests
    /\ \E req \in Requests :
          responses' =
              Append(responses, [req |-> req, res |-> Dispatch(req, now),
                                 at |-> now])
    /\ UNCHANGED <<expressMajor, envPORT, occupied, now, pc, PORT,
                   listenCalls, listenArg, startCalls, listenError, bound,
                   stdout, stderr, exitCode>>

\* Time passes.
Tick ==
    /\ \E t \in Instants : t # now /\ NotAfter(now, t) /\ now' = t
    /\ UNCHANGED <<expressMajor, envPORT, occupied, pc, PORT, listenCalls,
                   listenArg,
                   startCalls, listenError, bound, stdout, stderr, exitCode,
                   responses>>

\* The system clock is set back (by its operator or by time
\* synchronisation): new Date() reads the wall clock, not a monotonic one.
ClockSetBack ==
    /\ \E t \in Instants : t # now /\ NotAfter(t, now) /\ now' = t
    /\ UNCHANGED <<expressMajor, envPORT, occupied, pc, PORT, listenCalls,
                   listenArg,
                   startCalls, listenError, bound, stdout, stderr, exitCode,
                   responses>>

Next ==
    \/ ResolvePort
    \/ StartServer
    \/ EmitListening
    \/ EmitErrorUnhandled
    \/ EmitErrorToCallback
    \/ EventLoopEmpty
    \/ HandleRequest
    \/ Tick
    \/ ClockSetBack

Spec == Init /\ [][Next]_vars

\* ------------------------------------------------------------ properties

Exchanges == 1..Len(responses)

\* A GET request whose path is /health as written in the route.
IsGetHealth(req) == req.method = "GET" /\ req.path = RoutePath

HasTimestamp(x) == HasKey(x.res.body, "timestamp")

Timestamp(x) == JsonGet(x.res.body, "timestamp")

\* The members of a body other than the timestamp.
FixedMembers(body) == SelectSeq(body, LAMBDA m : m[1] # "timestamp")

HealthKeys == {"status", "message", "timestamp"}

FailedToBind == listenError # "none"

\* C1: every GET /health served by the listening server is answered with
\* status 200 and a JSON body whose keys are exactly status, message and
\* timestamp.
C1_GetHealthAnswers200 ==
    \A i \in Exchanges :
        IsGetHealth(responses[i].req) =>
            /\ responses[i].res.status = 200
            /\ JsonKeys(responses[i].res.body) = HealthKeys

\* C2: when the listen fails to bind, the "Server running" line is never
\* logged and the process ends with a non-zero exit status.
C2_BindFailureExitsNonZeroUnlogged ==
    FailedToBind =>
        /\ \A i \in 1..Len(stdout) : stdout[i].text # RunningLine(PORT).text
        /\ pc = "exited" => exitCode # 0

\* C3: a bind failure is caught by the catch block of startServer: the
\* process ends with exit code 1 after "Failed to start server" was logged,
\* and ends in no other way.
C3_BindFailureCaughtAndLogged ==
    (FailedToBind /\ pc = "exited") =>
        /\ exitCode = 1
        /\ stderr = <<FailedLine(listenError)>>

\* C4: with PORT unset in the environment the port given to app.listen is
\* the number 8000, the socket that gets bound is port 8000, and the logged
\* URLs name port 8000.
C4_UnsetPortListensOn8000 ==
    (envPORT = Undefined /\ pc # "load") =>
        /\ PORT = Num(8000)
        /\ listenCalls > 0 => listenArg = Num(8000)
        /\ bound => ToPortNumber(listenArg) = 8000
        /\ \A i \in 1..Len(stdout) : stdout[i].port = <<"8", "0", "0", "0">>

C4_Witness ==
    /\ envPORT = Undefined
    /\ pc = "listening"
    /\ bound
    /\ Len(stdout) = 2

\* C5 as stated: every timestamp is a valid ISO-8601 datetime naming the
\* instant the response was built, and over the responses in the order they
\* were served the timestamps never decrease.
C5_TimestampsNeverDecrease ==
    /\ \A i \in Exchanges :
          HasTimestamp(responses[i]) =>
              /\ IsISO8601(Timestamp(responses[i]))
              /\ DateParse(Timestamp(responses[i])) = responses[i].at
    /\ \A i, j \in Exchanges :
          (i < j /\ HasTimestamp(responses[i]) /\ HasTimestamp(responses[j]))
              => NotAfter(DateParse(Timestamp(responses[i])),
                          DateParse(Timestamp(responses[j])))

\* C5 as amended: every timestamp is a valid ISO-8601 datetime naming the
\* wall-clock reading at which the response was built, and of two responses
\* the later has the timestamp that is not smaller (as a datetime and as a
\* string) whenever the wall clock read no earlier for it than for the
\* earlier one.
C5_TimestampIsWallClockReading ==
    /\ \A i \in Exchanges :
          HasTimestamp(responses[i]) =>
              /\ IsISO8601(Timestamp(responses[i]))
              /\ DateParse(Timestamp(responses[i])) = responses[i].at
    /\ \A i, j \in Exchanges :
          (/\ i < j
           /\ HasTimestamp(responses[i])
           /\ HasTimestamp(responses[j])
           /\ NotAfter(responses[i].at, responses[j].at))
              => /\ NotAfter(DateParse(Timestamp(responses[i])),
                             DateParse(Timestamp(responses[j])))
                 /\ StringLeq(Timestamp(responses[i]), Timestamp(responses[j]))

C5_Witness ==
    /\ Len(responses) >= 2
    /\ HasTimestamp(responses[1])
    /\ HasTimestamp(responses[2])
    /\ responses[1].at # responses[2].at
    /\ NotAfter(responses[1].at, responses[2].at)

\* C6: whatever was requested before, a response that carries a JSON body
\* has a status field in it, and it is the string "OK".
C6_StatusFieldIsOK ==
    \A i \in Exchanges :
        responses[i].res.body # <<>> =>
            /\ HasKey(responses[i].res.body, "status")
            /\ JsonGet(responses[i].res.body, "status") = "OK"

C6_Witness ==
    /\ Len(responses) >= 2
    /\ responses[1].res.status # 200
    /\ responses[2].res.body # <<>>
    /\ HasKey(responses[2].res.body, "status")

\* C7 as stated: a response with status 200 answers a GET request for the
\* path /health, and nothing else.
C7_OnlyGetHealthGets200 ==
    \A i \in Exchanges :
        responses[i].res.status = 200 => IsGetHealth(responses[i].req)

\* C7 as amended: a response with status 200 answers a GET, HEAD or OPTIONS
\* request whose path is /health in any letter case, with or without one
\* trailing slash; every other request is answered 404 or, a GET or HEAD
\* with If-None-Match, 304.
C7_Only200OnHealthRoute ==
    \A i \in Exchanges :
        LET x == responses[i]
            onRoute ==
                /\ x.req.method \in {"GET", "HEAD", "OPTIONS"}
                /\ Lower(x.req.path) \in {RoutePath, RoutePath \o <<"/">>}
        IN  /\ x.res.status = 200 => onRoute
            /\ ~onRoute => x.res.status = 404

C7_Witness ==
    \E i, j \in Exchanges :
        /\ responses[i].req.method = "POST"
        /\ responses[i].req.path = RoutePath
        /\ responses[i].res.status = 404
        /\ responses[j].req.method = "GET"
        /\ ~PathMatches(responses[j].req.path)
        /\ responses[j].res.status = 404

\* C8: any two GET /health requests, whatever their query, body and
\* headers and whatever was served before them, get the same status code
\* and the same status and message fields.
C8_ResponseIgnoresRequest ==
    \A i, j \in Exchanges :
        (IsGetHealth(responses[i].req) /\ IsGetHealth(responses[j].req)) =>
            /\ responses[i].res.status = responses[j].res.status
            /\ FixedMembers(responses[i].res.body)
                   = FixedMembers(responses[j].res.body)

\* C9: startServer runs once and app.listen is called at most once, so a
\* failed bind is never followed by another attempt and the server never
\* listens after it.
C9_BindFailureNotRetried ==
    /\ startCalls <= 1
    /\ listenCalls <= 1
    /\ FailedToBind => (~bound /\ pc \notin {"listenPending", "listening"})

C9_Witness ==
    /\ listenError = "EADDRINUSE"
    /\ listenCalls = 1
    /\ pc = "exited"

\* C10: the two confirmation lines are logged once, in order, with the
\* resolved PORT, and only while the server is listening.
C10_ConfirmationOnlyWhenListening ==
    /\ stdout = <<>> \/ stdout = <<RunningLine(PORT), HealthLine(PORT)>>
    /\ stdout # <<>> => (bound /\ pc = "listening")

====
